---- MODULE Spec2Model ----
(***************************************************************************)
(* Model of FileProcessor (file_processor.go): ProcessFileList reads a     *)
(* list of paths, filters and reads each listed file, searches it for      *)
(* error lines, numbers the records and writes a Markdown table through a  *)
(* buffered writer.                                                        *)
(*                                                                         *)
(* Text is modelled as a sequence of one-character strings, so trimming,   *)
(* prefix/suffix tests, case folding, escaping and formatting are computed *)
(* and not assumed.  The three non-ASCII words of the table header are     *)
(* kept as single tokens.                                                  *)
(***************************************************************************)
EXTENDS Integers, Sequences, FiniteSets, TLC

VARIABLES
    disk,         \* the file system under baseDir: full path -> kind
    listFile,     \* the lines of the list file, as the scanner yields them
    out,          \* the output file: the strings that reached it, in order
    pc,           \* position in ProcessFileList / writeOutputFile
    filePaths,    \* result of readFileList
    i,            \* position of the range loop in filePaths (1-based)
    content,      \* content of the file being processed
    errors,       \* the batch SearchErrors returned for the current file
    allErrors,    \* accumulated records
    errorCount,   \* running index counter
    j,            \* position of the row loop of writeOutputFile
    buf,          \* strings held by the bufio.Writer, not yet in the file
    wErr,         \* the error writeOutputFile returns ("nil" when none)
    fileOpen,     \* the output file handle is open
    retCount,     \* ProcessFileList's first result
    retErr,       \* ProcessFileList's second result
    log,          \* observed calls and diagnostics, in order
    batches,      \* the batches SearchErrors returned, in order
    listFailed,   \* readFileList failed in this run
    writeFailed   \* some write to the output destination failed in this run

vars == <<disk, listFile, out, pc, filePaths, i, content, errors, allErrors,
          errorCount, j, buf, wErr, fileOpen, retCount, retErr, log, batches,
          listFailed, writeFailed>>

-----------------------------------------------------------------------------
(* Bounds *)

MaxFiles == 3      \* lines in the list file
MaxMsgLen == 3     \* length of a message handed to writeOutputFile directly

-----------------------------------------------------------------------------
(* Text helpers: the strings package *)

UpperLetters == <<"A","B","C","D","E","F","G","H","I","J","K","L","M",
                  "N","O","P","Q","R","S","T","U","V","W","X","Y","Z">>
LowerLetters == <<"a","b","c","d","e","f","g","h","i","j","k","l","m",
                  "n","o","p","q","r","s","t","u","v","w","x","y","z">>

LowerChar(c) ==
    IF \E k \in 1..26 : UpperLetters[k] = c
    THEN LowerLetters[CHOOSE k \in 1..26 : UpperLetters[k] = c]
    ELSE c

ToLower(s) == [k \in 1..Len(s) |-> LowerChar(s[k])]

IsSpace(c) == c \in {" ", "\t", "\n", "\r"}

RECURSIVE TrimLeft(_)
TrimLeft(s) ==
    IF s # <<>> /\ IsSpace(Head(s)) THEN TrimLeft(Tail(s)) ELSE s

RECURSIVE TrimRight(_)
TrimRight(s) ==
    IF s # <<>> /\ IsSpace(s[Len(s)])
    THEN TrimRight(SubSeq(s, 1, Len(s) - 1))
    ELSE s

TrimSpace(s) == TrimRight(TrimLeft(s))

HasPrefix(s, p) == Len(s) >= Len(p) /\ SubSeq(s, 1, Len(p)) = p

HasSuffix(s, suf) ==
    Len(s) >= Len(suf) /\ SubSeq(s, Len(s) - Len(suf) + 1, Len(s)) = suf

TrimPrefix(s, p) ==
    IF HasPrefix(s, p) THEN SubSeq(s, Len(p) + 1, Len(s)) ELSE s

\* strings.ReplaceAll(s, old, new) for a one-character old
RECURSIVE ReplaceAll(_, _, _)
ReplaceAll(s, old, new) ==
    IF s = <<>> THEN <<>>
    ELSE (IF Head(s) = old THEN new ELSE <<Head(s)>>)
         \o ReplaceAll(Tail(s), old, new)

Contains(s, sub) ==
    \E k \in 1..(Len(s) - Len(sub) + 1) : SubSeq(s, k, k + Len(sub) - 1) = sub

\* the lines of a text, split at "\n"
RECURSIVE SplitLines(_, _)
SplitLines(s, cur) ==
    IF s = <<>> THEN <<cur>>
    ELSE IF Head(s) = "\n" THEN <<cur>> \o SplitLines(Tail(s), <<>>)
    ELSE SplitLines(Tail(s), Append(cur, Head(s)))

Digits == <<"0","1","2","3","4","5","6","7","8","9">>

\* %d of fmt.Sprintf, for n >= 0
RECURSIVE Itoa(_)
Itoa(n) ==
    IF n < 10 THEN <<Digits[n + 1]>>
    ELSE Itoa(n \div 10) \o <<Digits[(n % 10) + 1]>>

RECURSIVE Flatten(_)
Flatten(ss) == IF ss = <<>> THEN <<>> ELSE Head(ss) \o Flatten(Tail(ss))

-----------------------------------------------------------------------------
(* Paths *)

DotSlash == <<".", "/">>
GoSuffix == <<".", "g", "o">>

\* fp.baseDir
baseDir == <<"d">>

\* filepath.Join(base, p): joins with "/" and cleans; of Clean, the removal
\* of "." elements is what the listed paths can exercise
RECURSIVE CleanRel(_)
CleanRel(p) == IF HasPrefix(p, DotSlash) THEN CleanRel(TrimPrefix(p, DotSlash)) ELSE p

Join(base, p) == base \o <<"/">> \o CleanRel(p)

-----------------------------------------------------------------------------
(* The run's inputs: the list file and the files under baseDir *)

\* lines a list file can hold
Line_a == <<".","/","a",".","g","o">>
Line_b == <<"b",".","t","x","t">>
Line_missing == <<"m","i","s","s","i","n","g",".","g","o">>
Line_upper == <<" ","A",".","G","O">>
Line_blank == <<" ">>

RawLines == {Line_a, Line_b, Line_missing, Line_upper, Line_blank}

Full_a == <<"d","/","a",".","g","o">>
Full_b == <<"d","/","b",".","t","x","t">>
Full_upper == <<"d","/","A",".","G","O">>

\* what os.Stat and os.ReadFile can meet at a path:
\*   "ok"          exists and is readable
\*   "missing"     does not exist (Stat fails with ErrNotExist)
\*   "unreadable"  exists, Stat succeeds, ReadFile fails
\*   "staterr"     Stat fails with an error other than ErrNotExist, and
\*                 ReadFile fails as well
\* A path outside the disk's domain, as missing.go, does not exist.
Disks ==
    { [p \in {Full_a, Full_b, Full_upper} |->
          CASE p = Full_a -> ka
            [] p = Full_b -> kb
            [] OTHER -> "ok"] :
      ka \in {"ok", "missing", "unreadable", "staterr"},
      kb \in {"ok", "missing"} }

KindOf(full) == IF full \in DOMAIN disk THEN disk[full] ELSE "missing"

\* the bytes os.ReadFile returns for a readable file
FileText(full) ==
    CASE full = Full_a -> <<"l","i","n","e","1","\n","E","R","R","O","R",":"," ","b","a","d"," ","t","h","i","n","g","\n","l","i","n","e","3">>
      [] full = Full_b -> <<"e","r","r","o","r",":"," ","t">>
      [] OTHER -> <<" ","e","r","r","o","r",":"," ","x","|","y","\n","o","k","\n","E","r","r","o","r",":"," ","\\","|","\n">>

\* what the output path holds before the run
OldOut == <<<<"o","l","d">>>>

-----------------------------------------------------------------------------
(* ErrorSearcher.SearchErrors.  Its source is not part of src/; it is      *)
(* modelled from the specification (4.1): split into lines, flag the lines *)
(* holding the case-insensitive marker "error:", and emit for each the     *)
(* trimmed line, the label it was given and the 1-based line number, with  *)
(* Index left at its zero value.                                           *)

ErrorMarker == <<"e","r","r","o","r",":">>

MatchLine(line) == Contains(ToLower(line), ErrorMarker)

RECURSIVE SearchFrom(_, _, _)
SearchFrom(lines, k, label) ==
    IF k > Len(lines) THEN <<>>
    ELSE (IF MatchLine(lines[k])
          THEN <<[Index |-> 0, ErrorMessage |-> TrimSpace(lines[k]),
                  FilePath |-> label, LineNum |-> k]>>
          ELSE <<>>)
         \o SearchFrom(lines, k + 1, label)

SearchErrors(text, label) == SearchFrom(SplitLines(text, <<>>), 1, label)

-----------------------------------------------------------------------------
(* writeOutputFile's text *)

Pipe == "|"
Backslash == "\\"

\* header (lines 125-127); TITLE, COL_LOG, COL_PATH and COL_LINE stand for
\* the non-ASCII words of the title and of the three column names
Header ==
    <<"#", " ", "TITLE", "\n", "\n">>
    \o <<"|", " ", "COL_LOG", " ", "|", " ", "COL_PATH", " ", "|", " ",
         "COL_LINE", " ", "|", "\n">>
    \o <<"|", " ", "-","-","-","-","-","-","-","-", " ", "|", " ",
         "-","-","-","-","-","-","-","-", " ", "|", " ", "-","-","-","-",
         " ", "|", "\n">>

\* line 136
EscapeMessage(m) == ReplaceAll(m, Pipe, <<Backslash, Pipe>>)

\* line 137: fmt.Sprintf("| %s | %s | %d |\n", ...)
RenderRow(e) ==
    <<"|", " ">> \o EscapeMessage(e.ErrorMessage)
    \o <<" ", "|", " ">> \o e.FilePath
    \o <<" ", "|", " ">> \o Itoa(e.LineNum)
    \o <<" ", "|", "\n">>

-----------------------------------------------------------------------------
(* Errors and the call log *)

NoErr == [wrap |-> "nil", cause |-> "nil"]
Wrap(w, c) == [wrap |-> w, cause |-> c]

Ev(op, arg) == [op |-> op, arg |-> arg]

\* the loop variables of lines 35-40
relativeFilePath == filePaths[i]
filePath == TrimPrefix(relativeFilePath, DotSlash)
fullFilePath == Join(baseDir, filePath)

InLoop == pc = "loop" /\ i <= Len(filePaths)

-----------------------------------------------------------------------------
(* Initial states *)

ListFiles == UNION { [1..n -> RawLines] : n \in 0..MaxFiles }

Init ==
    /\ disk \in Disks
    /\ listFile \in ListFiles
    /\ out = OldOut
    /\ pc = "readFileList"
    /\ filePaths = <<>>
    /\ i = 1
    /\ content = <<>>
    /\ errors = <<>>
    /\ allErrors = <<>>
    /\ errorCount = 0
    /\ j = 1
    /\ buf = <<>>
    /\ wErr = "nil"
    /\ fileOpen = FALSE
    /\ retCount = 0
    /\ retErr = NoErr
    /\ log = <<>>
    /\ batches = <<>>
    /\ listFailed = FALSE
    /\ writeFailed = FALSE

-----------------------------------------------------------------------------
(* readFileList, as called at lines 26-29 *)

\* os.Open fails (lines 82-85); ProcessFileList returns at line 28
ReadFileListOpenFail ==
    /\ pc = "readFileList"
    /\ listFailed' = TRUE
    /\ retCount' = 0
    /\ retErr' = Wrap("read list failed", "open")
    /\ pc' = "done"
    /\ UNCHANGED <<disk, listFile, out, filePaths, i, content, errors,
                   allErrors, errorCount, j, buf, wErr, fileOpen, log,
                   batches, writeFailed>>

\* ReadFileListScanFail with scanner.Err() left unchecked: the lines read
\* before the failure are processed
ReadFileListScanFail_Unchecked ==
    /\ pc = "readFileList"
    /\ listFailed' = TRUE
    /\ \E n \in 0..Len(listFile) :
          filePaths' = SelectSeq([k \in 1..n |-> TrimSpace(listFile[k])],
                                 LAMBDA l : l # <<>>)
    /\ i' = 1
    /\ pc' = "loop"
    /\ UNCHANGED <<disk, listFile, out, content, errors, allErrors,
                   errorCount, j, buf, wErr, fileOpen, retCount, retErr, log,
                   batches, writeFailed>>

\* scanner.Err() is non-nil (lines 97-99); ProcessFileList returns at line 28
ReadFileListScanFail ==
    /\ pc = "readFileList"
    /\ listFailed' = TRUE
    /\ retCount' = 0
    /\ retErr' = Wrap("read list failed", "scan")
    /\ pc' = "done"
    /\ UNCHANGED <<disk, listFile, out, filePaths, i, content, errors,
                   allErrors, errorCount, j, buf, wErr, fileOpen, log,
                   batches, writeFailed>>

\* lines 88-101: every line trimmed, the empty ones dropped
ScanLines(lines) ==
    SelectSeq([k \in 1..Len(lines) |-> TrimSpace(lines[k])],
              LAMBDA l : l # <<>>)

ReadFileListOk ==
    /\ pc = "readFileList"
    /\ filePaths' = ScanLines(listFile)
    /\ i' = 1
    /\ pc' = "loop"
    /\ UNCHANGED <<disk, listFile, out, content, errors, allErrors,
                   errorCount, j, buf, wErr, fileOpen, retCount, retErr, log,
                   batches, listFailed, writeFailed>>

-----------------------------------------------------------------------------
(* The loop of ProcessFileList, lines 35-70 *)

\* StatNotExist with the extension tested first: a missing path that is
\* no .go file is skipped without the diagnostic
StatNotExist_SuffixFirst ==
    /\ InLoop
    /\ KindOf(fullFilePath) = "missing"
    /\ log' = log \o (IF HasSuffix(ToLower(filePath), GoSuffix)
                       THEN <<Ev("stat", fullFilePath),
                              Ev("print not exist", fullFilePath)>>
                       ELSE <<>>)
    /\ i' = i + 1
    /\ UNCHANGED <<disk, listFile, out, pc, filePaths, content, errors,
                   allErrors, errorCount, j, buf, wErr, fileOpen, retCount,
                   retErr, batches, listFailed, writeFailed>>

\* lines 43-46: the path does not exist
StatNotExist ==
    /\ InLoop
    /\ KindOf(fullFilePath) = "missing"
    /\ log' = log \o <<Ev("stat", fullFilePath),
                       Ev("print not exist", fullFilePath)>>
    /\ i' = i + 1
    /\ UNCHANGED <<disk, listFile, out, pc, filePaths, content, errors,
                   allErrors, errorCount, j, buf, wErr, fileOpen, retCount,
                   retErr, batches, listFailed, writeFailed>>

\* line 43: Stat succeeds, or fails with an error that is not ErrNotExist
StatOther ==
    /\ InLoop
    /\ KindOf(fullFilePath) # "missing"
    /\ log' = Append(log, Ev("stat", fullFilePath))
    /\ pc' = "suffix"
    /\ UNCHANGED <<disk, listFile, out, filePaths, i, content, errors,
                   allErrors, errorCount, j, buf, wErr, fileOpen, retCount,
                   retErr, batches, listFailed, writeFailed>>

IsGoFile(p) == HasSuffix(ToLower(p), GoSuffix)

\* SuffixSkip with the continue missing: the file is read all the same
SuffixSkip_Proceeds ==
    /\ pc = "suffix"
    /\ ~IsGoFile(filePath)
    /\ pc' = "read"
    /\ UNCHANGED <<disk, listFile, out, filePaths, i, content, errors,
                   allErrors, errorCount, j, buf, wErr, fileOpen, retCount,
                   retErr, log, batches, listFailed, writeFailed>>

\* lines 49-51
SuffixSkip ==
    /\ pc = "suffix"
    /\ ~IsGoFile(filePath)
    /\ i' = i + 1
    /\ pc' = "loop"
    /\ UNCHANGED <<disk, listFile, out, filePaths, content, errors,
                   allErrors, errorCount, j, buf, wErr, fileOpen, retCount,
                   retErr, log, batches, listFailed, writeFailed>>

SuffixGo ==
    /\ pc = "suffix"
    /\ IsGoFile(filePath)
    /\ pc' = "read"
    /\ UNCHANGED <<disk, listFile, out, filePaths, i, content, errors,
                   allErrors, errorCount, j, buf, wErr, fileOpen, retCount,
                   retErr, log, batches, listFailed, writeFailed>>

\* ReadFileContentFail returning the error in place of the continue
ReadFileContentFail_Abort ==
    /\ pc = "read"
    /\ KindOf(fullFilePath) # "ok"
    /\ log' = Append(log, Ev("read", fullFilePath))
    /\ retCount' = 0
    /\ retErr' = Wrap("read file failed", "read")
    /\ pc' = "done"
    /\ UNCHANGED <<disk, listFile, out, filePaths, i, content, errors,
                   allErrors, errorCount, j, buf, wErr, fileOpen, batches,
                   listFailed, writeFailed>>

\* lines 54-58 with readFileContent (105-111): the read fails
ReadFileContentFail ==
    /\ pc = "read"
    /\ KindOf(fullFilePath) # "ok"
    /\ log' = log \o <<Ev("read", fullFilePath),
                       Ev("print read error", relativeFilePath)>>
    /\ i' = i + 1
    /\ pc' = "loop"
    /\ UNCHANGED <<disk, listFile, out, filePaths, content, errors,
                   allErrors, errorCount, j, buf, wErr, fileOpen, retCount,
                   retErr, batches, listFailed, writeFailed>>

ReadFileContentOk ==
    /\ pc = "read"
    /\ KindOf(fullFilePath) = "ok"
    /\ content' = FileText(fullFilePath)
    /\ log' = Append(log, Ev("read", fullFilePath))
    /\ pc' = "search"
    /\ UNCHANGED <<disk, listFile, out, filePaths, i, errors, allErrors,
                   errorCount, j, buf, wErr, fileOpen, retCount, retErr,
                   batches, listFailed, writeFailed>>

\* Search handing the searcher the path with its "./" removed
Search_TrimmedLabel ==
    /\ pc = "search"
    /\ errors' = SearchErrors(content, filePath)
    /\ batches' = Append(batches, errors')
    /\ log' = Append(log, Ev("search", filePath))
    /\ pc' = "index"
    /\ UNCHANGED <<disk, listFile, out, filePaths, i, content, allErrors,
                   errorCount, j, buf, wErr, fileOpen, retCount, retErr,
                   listFailed, writeFailed>>

\* line 61
Search ==
    /\ pc = "search"
    /\ errors' = SearchErrors(content, relativeFilePath)
    /\ batches' = Append(batches, errors')
    /\ log' = Append(log, Ev("search", relativeFilePath))
    /\ pc' = "index"
    /\ UNCHANGED <<disk, listFile, out, filePaths, i, content, allErrors,
                   errorCount, j, buf, wErr, fileOpen, retCount, retErr,
                   listFailed, writeFailed>>

\* AssignIndices with the numbering restarted for every file
AssignIndices_PerFile ==
    /\ pc = "index"
    /\ errors' = [k \in 1..Len(errors) |-> [errors[k] EXCEPT !.Index = k]]
    /\ errorCount' = errorCount + Len(errors)
    /\ pc' = "append"
    /\ UNCHANGED <<disk, listFile, out, filePaths, i, content, allErrors,
                   j, buf, wErr, fileOpen, retCount, retErr, log, batches,
                   listFailed, writeFailed>>

\* lines 64-67
AssignIndices ==
    /\ pc = "index"
    /\ errors' = [k \in 1..Len(errors) |->
                     [errors[k] EXCEPT !.Index = errorCount + k]]
    /\ errorCount' = errorCount + Len(errors)
    /\ pc' = "append"
    /\ UNCHANGED <<disk, listFile, out, filePaths, i, content, allErrors,
                   j, buf, wErr, fileOpen, retCount, retErr, log, batches,
                   listFailed, writeFailed>>

\* line 69
AppendErrors ==
    /\ pc = "append"
    /\ allErrors' = allErrors \o errors
    /\ i' = i + 1
    /\ pc' = "loop"
    /\ UNCHANGED <<disk, listFile, out, filePaths, content, errors,
                   errorCount, j, buf, wErr, fileOpen, retCount, retErr, log,
                   batches, listFailed, writeFailed>>

\* the range is exhausted: line 73 calls writeOutputFile
LoopExit ==
    /\ pc = "loop"
    /\ i > Len(filePaths)
    /\ pc' = "create"
    /\ UNCHANGED <<disk, listFile, out, filePaths, i, content, errors,
                   allErrors, errorCount, j, buf, wErr, fileOpen, retCount,
                   retErr, log, batches, listFailed, writeFailed>>

-----------------------------------------------------------------------------
(* writeOutputFile, lines 114-145.  The bufio.Writer holds what it is given *)
(* until its buffer is full; the file and the buffer are modelled as the    *)
(* sequences of strings they hold.  Whether a row still fits depends on the *)
(* byte counts, which are left open: a row either fits or forces a flush of *)
(* the buffer, and that flush succeeds or fails.  The header always fits    *)
(* the empty buffer.                                                        *)

\* lines 115-118: os.Create fails; nothing is deferred yet
CreateFail ==
    /\ pc = "create"
    /\ wErr' = "create"
    /\ writeFailed' = TRUE
    /\ pc' = "return"
    /\ UNCHANGED <<disk, listFile, out, filePaths, i, content, errors,
                   allErrors, errorCount, j, buf, fileOpen, retCount, retErr,
                   log, batches, listFailed>>

\* lines 115-122: os.Create truncates the destination
CreateOk ==
    /\ pc = "create"
    /\ out' = <<>>
    /\ buf' = <<>>
    /\ fileOpen' = TRUE
    /\ log' = Append(log, Ev("create", <<>>))
    /\ pc' = "header"
    /\ UNCHANGED <<disk, listFile, filePaths, i, content, errors, allErrors,
                   errorCount, j, wErr, retCount, retErr, batches,
                   listFailed, writeFailed>>

\* lines 125-131
WriteHeader ==
    /\ pc = "header"
    /\ buf' = Append(buf, Header)
    /\ j' = 1
    /\ pc' = "row"
    /\ UNCHANGED <<disk, listFile, out, filePaths, i, content, errors,
                   allErrors, errorCount, wErr, fileOpen, retCount, retErr,
                   log, batches, listFailed, writeFailed>>

\* lines 134-142: the row fits the buffer
WriteRowBuffered ==
    /\ pc = "row"
    /\ j <= Len(allErrors)
    /\ buf' = Append(buf, RenderRow(allErrors[j]))
    /\ j' = j + 1
    /\ UNCHANGED <<disk, listFile, out, pc, filePaths, i, content, errors,
                   allErrors, errorCount, wErr, fileOpen, retCount, retErr,
                   log, batches, listFailed, writeFailed>>

\* lines 134-142: the row fills the buffer, which is written to the file
WriteRowFlushOk ==
    /\ pc = "row"
    /\ j <= Len(allErrors)
    /\ buf # <<>>
    /\ out' = out \o buf
    /\ buf' = <<RenderRow(allErrors[j])>>
    /\ j' = j + 1
    /\ UNCHANGED <<disk, listFile, pc, filePaths, i, content, errors,
                   allErrors, errorCount, wErr, fileOpen, retCount, retErr,
                   log, batches, listFailed, writeFailed>>

\* lines 139-141: the write of the full buffer fails part-way and
\* WriteString returns the error
WriteRowFlushFail ==
    /\ pc = "row"
    /\ j <= Len(allErrors)
    /\ buf # <<>>
    /\ \E k \in 0..(Len(buf) - 1) : out' = out \o SubSeq(buf, 1, k)
    /\ wErr' = "write"
    /\ writeFailed' = TRUE
    /\ pc' = "flush"
    /\ UNCHANGED <<disk, listFile, filePaths, i, content, errors, allErrors,
                   errorCount, j, buf, fileOpen, retCount, retErr, log,
                   batches, listFailed>>

\* line 144: return nil
RowsDone ==
    /\ pc = "row"
    /\ j > Len(allErrors)
    /\ pc' = "flush"
    /\ UNCHANGED <<disk, listFile, out, filePaths, i, content, errors,
                   allErrors, errorCount, j, buf, wErr, fileOpen, retCount,
                   retErr, log, batches, listFailed, writeFailed>>

\* line 122, deferred: after a failed write the writer does nothing more
FlushAfterError ==
    /\ pc = "flush"
    /\ wErr # "nil"
    /\ pc' = "close"
    /\ UNCHANGED <<disk, listFile, out, filePaths, i, content, errors,
                   allErrors, errorCount, j, buf, wErr, fileOpen, retCount,
                   retErr, log, batches, listFailed, writeFailed>>

\* line 122, deferred: the buffer reaches the file
FlushOk ==
    /\ pc = "flush"
    /\ wErr = "nil"
    /\ out' = out \o buf
    /\ buf' = <<>>
    /\ pc' = "close"
    /\ UNCHANGED <<disk, listFile, filePaths, i, content, errors, allErrors,
                   errorCount, j, wErr, fileOpen, retCount, retErr, log,
                   batches, listFailed, writeFailed>>

\* line 122, deferred: the write fails part-way; the deferred call's result
\* is discarded, so the value writeOutputFile returns stays as it was
FlushFail ==
    /\ pc = "flush"
    /\ wErr = "nil"
    /\ buf # <<>>
    /\ \E k \in 0..(Len(buf) - 1) : out' = out \o SubSeq(buf, 1, k)
    /\ writeFailed' = TRUE
    /\ pc' = "close"
    /\ UNCHANGED <<disk, listFile, filePaths, i, content, errors, allErrors,
                   errorCount, j, buf, wErr, fileOpen, retCount, retErr, log,
                   batches, listFailed>>

\* line 119, deferred
Close ==
    /\ pc = "close"
    /\ fileOpen' = FALSE
    /\ pc' = "return"
    /\ UNCHANGED <<disk, listFile, out, filePaths, i, content, errors,
                   allErrors, errorCount, j, buf, wErr, retCount, retErr,
                   log, batches, listFailed, writeFailed>>

-----------------------------------------------------------------------------
(* ProcessFileList's return, lines 73-77 *)

ReturnWriteError ==
    /\ pc = "return"
    /\ wErr # "nil"
    /\ retCount' = 0
    /\ retErr' = Wrap("write output failed", wErr)
    /\ pc' = "done"
    /\ UNCHANGED <<disk, listFile, out, filePaths, i, content, errors,
                   allErrors, errorCount, j, buf, wErr, fileOpen, log,
                   batches, listFailed, writeFailed>>

ReturnCount ==
    /\ pc = "return"
    /\ wErr = "nil"
    /\ retCount' = errorCount
    /\ retErr' = NoErr
    /\ pc' = "done"
    /\ UNCHANGED <<disk, listFile, out, filePaths, i, content, errors,
                   allErrors, errorCount, j, buf, wErr, fileOpen, log,
                   batches, listFailed, writeFailed>>

-----------------------------------------------------------------------------
(* Specifications *)

WriteNext ==
    \/ CreateFail
    \/ CreateOk
    \/ WriteHeader
    \/ WriteRowBuffered
    \/ WriteRowFlushOk
    \/ WriteRowFlushFail
    \/ RowsDone
    \/ FlushAfterError
    \/ FlushOk
    \/ FlushFail
    \/ Close
    \/ ReturnWriteError
    \/ ReturnCount

Next ==
    \/ ReadFileListOpenFail
    \/ ReadFileListScanFail
    \/ ReadFileListOk
    \/ StatNotExist
    \/ StatOther
    \/ SuffixSkip
    \/ SuffixGo
    \/ ReadFileContentFail
    \/ ReadFileContentOk
    \/ Search
    \/ AssignIndices
    \/ AppendErrors
    \/ LoopExit
    \/ WriteNext

\* ProcessFileList on any list file and any disk
Spec == Init /\ [][Next]_vars


\* writeOutputFile, then the return, on one record with any message
Messages == UNION { [1..n -> {"a", Pipe, Backslash}] : n \in 0..MaxMsgLen }

InitWrite ==
    /\ disk = <<>>
    /\ listFile = <<>>
    /\ out = OldOut
    /\ pc = "create"
    /\ filePaths = <<>>
    /\ i = 1
    /\ content = <<>>
    /\ errors = <<>>
    /\ \E m \in Messages, n \in {2, 12} :
          allErrors = <<[Index |-> 1, ErrorMessage |-> m,
                         FilePath |-> Line_a, LineNum |-> n]>>
    /\ errorCount = 1
    /\ j = 1
    /\ buf = <<>>
    /\ wErr = "nil"
    /\ fileOpen = FALSE
    /\ retCount = 0
    /\ retErr = NoErr
    /\ log = <<>>
    /\ batches = <<>>
    /\ listFailed = FALSE
    /\ writeFailed = FALSE

SpecWrite == InitWrite /\ [][WriteNext]_vars

-----------------------------------------------------------------------------
(* Properties *)

\* the full path a listed path resolves to (lines 37-40)
Resolve(label) == Join(baseDir, TrimPrefix(label, DotSlash))

IsPrint(e) == e.op \in {"print not exist", "print read error"}

\* the document made of the header and one row per record
Document(records) ==
    Header \o Flatten([k \in 1..Len(records) |-> RenderRow(records[k])])

\* the number of complete lines in a text
RECURSIVE CountLines(_)
CountLines(s) ==
    IF s = <<>> THEN 0
    ELSE (IF Head(s) = "\n" THEN 1 ELSE 0) + CountLines(Tail(s))

\* the number of data rows of a document: its lines after the four of the
\* header
DataRowCount(doc) ==
    LET n == CountLines(Flatten(doc)) IN IF n > 4 THEN n - 4 ELSE 0

\* the number of pipes of a table row that delimit cells: a backslash
\* escapes the character after it
RECURSIVE DelimiterCount(_)
DelimiterCount(s) ==
    IF s = <<>> THEN 0
    ELSE IF Head(s) = Backslash
         THEN (IF Len(s) >= 2 THEN DelimiterCount(Tail(Tail(s))) ELSE 0)
         ELSE (IF Head(s) = Pipe THEN 1 ELSE 0) + DelimiterCount(Tail(s))

\* a text with every backslash that stands right before a pipe removed
RECURSIVE DropPipeEscapes(_)
DropPipeEscapes(s) ==
    IF s = <<>> THEN <<>>
    ELSE IF Head(s) = Backslash /\ Len(s) >= 2 /\ s[2] = Pipe
         THEN <<Pipe>> \o DropPipeEscapes(Tail(Tail(s)))
         ELSE <<Head(s)>> \o DropPipeEscapes(Tail(s))

\* C1: after ProcessFileList returns a nil error, the output document is the
\* header followed by exactly one row per record of every batch SearchErrors
\* returned, files in list order and records in the order returned.
C1_RowsInConcatenationOrder ==
    (pc = "done" /\ retErr = NoErr) => Flatten(out) = Document(Flatten(batches))

\* C2: at every point of the run, the Index values of allErrors are
\* 1, 2, ..., Len(allErrors) in sequence order, whatever was skipped.
C2_IndicesContiguous ==
    \A k \in 1..Len(allErrors) : allErrors[k].Index = k

\* three records from two files with a skipped non-.go path between them
C2_Witness ==
    /\ pc = "done"
    /\ Len(filePaths) = 3
    /\ ~IsGoFile(filePaths[2])
    /\ Len(allErrors) = 3
    /\ allErrors[1].FilePath # allErrors[3].FilePath

\* the run of the scenario: the three listed paths, a.go present and
\* readable, missing.go absent, every read and write succeeding
ScenarioDone ==
    /\ listFile = <<Line_a, Line_b, Line_missing>>
    /\ KindOf(Full_a) = "ok"
    /\ KindOf(Resolve(Line_missing)) = "missing"
    /\ pc = "done"
    /\ ~listFailed
    /\ ~writeFailed

ScenarioRowStripped == <<"|"," ","E","R","R","O","R",":"," ","b","a","d"," ","t","h","i","n","g"," ","|"," ","a",".","g","o"," ","|"," ","2"," ","|","\n">>
ScenarioRowAsListed == <<"|"," ","E","R","R","O","R",":"," ","b","a","d"," ","t","h","i","n","g"," ","|"," ",".","/","a",".","g","o"," ","|"," ","2"," ","|","\n">>

\* C3 as stated: the scenario yields exactly one data row, with file path
\* a.go (the "./" removed) and line 2, and returns count 1 and no error.
C3_ScenarioStrippedPath ==
    ScenarioDone =>
        /\ Flatten(out) = Header \o ScenarioRowStripped
        /\ retCount = 1
        /\ retErr = NoErr

\* C3 as amended: the scenario yields exactly one data row, with the file
\* path as listed (./a.go) and line 2, and returns count 1 and no error.
C3_ScenarioListedPath ==
    ScenarioDone =>
        /\ Flatten(out) = Header \o ScenarioRowAsListed
        /\ retCount = 1
        /\ retErr = NoErr

C3_Witness == ScenarioDone /\ Len(allErrors) = 1

\* C4: on success the count returned is the final index assigned and the
\* number of data rows written (0 without a match), and a failure to read
\* the list or to write the output is always returned as a non-nil error.
C4_ReturnContract ==
    pc = "done" =>
        /\ retErr = NoErr =>
              /\ retCount = Len(allErrors)
              /\ (allErrors # <<>> => retCount = allErrors[Len(allErrors)].Index)
              /\ retCount = DataRowCount(out)
        /\ (listFailed \/ writeFailed) => retErr # NoErr

\* C5: a listed path that does not exist contributes no record and no fatal
\* error; a path that does not end in .go is never read nor searched;
\* SearchErrors is called only for a path that exists, ends in .go and was
\* just read successfully.
C5_SkipSemantics ==
    /\ \A k \in 1..Len(log) :
          /\ log[k].op = "read" => IsGoFile(log[k].arg)
          /\ log[k].op = "search" =>
                /\ IsGoFile(log[k].arg)
                /\ KindOf(Resolve(log[k].arg)) = "ok"
                /\ k > 1
                /\ log[k - 1] = Ev("read", Resolve(log[k].arg))
    /\ \A k \in 1..Len(allErrors) :
          KindOf(Resolve(allErrors[k].FilePath)) # "missing"
    /\ (pc = "done" /\ retErr # NoErr) => (listFailed \/ writeFailed)

\* a finished run that met a missing path, an existing path that is no .go
\* file, and a file it searched
C5_Witness ==
    /\ pc = "done"
    /\ retErr = NoErr
    /\ \E k \in 1..Len(log) : log[k].op = "print not exist"
    /\ \E k \in 1..Len(log) : log[k].op = "search"
    /\ \E k \in 1..Len(filePaths) :
          ~IsGoFile(filePaths[k]) /\ KindOf(Resolve(filePaths[k])) = "ok"

\* C6 as stated: no diagnostic is ever printed for a path that does not end
\* in .go, also when that path does not exist.
C6_NoDiagnosticForNonGo ==
    \A k \in 1..Len(log) : IsPrint(log[k]) => IsGoFile(log[k].arg)

\* C6 as amended: a listed path that does not end in .go and exists is
\* skipped without a diagnostic; a listed path that does not exist gets the
\* not-exist diagnostic whatever its extension; the read-error diagnostic is
\* printed only for .go paths that exist and cannot be read.
C6_SilentOnlyWhenPresent ==
    /\ \A k \in 1..Len(log) :
          /\ log[k].op = "print not exist" => KindOf(log[k].arg) = "missing"
          /\ log[k].op = "print read error" =>
                /\ IsGoFile(log[k].arg)
                /\ KindOf(Resolve(log[k].arg)) \in {"unreadable", "staterr"}
    /\ \A k \in 1..Len(filePaths) :
          (k < i /\ KindOf(Resolve(filePaths[k])) = "missing") =>
              \E m \in 1..Len(log) :
                  log[m] = Ev("print not exist", Resolve(filePaths[k]))

\* a finished run whose list held one path, missing and not ending in
\* .go, and which printed the not-exist diagnostic for it
C6_Witness ==
    /\ pc = "done"
    /\ Len(filePaths) = 1
    /\ ~IsGoFile(filePaths[1])
    /\ KindOf(Resolve(filePaths[1])) = "missing"
    /\ log = <<Ev("stat", Resolve(filePaths[1])),
               Ev("print not exist", Resolve(filePaths[1])),
               Ev("create", <<>>)>>

\* C7: whenever a write of the header or of a row to the destination fails,
\* also when the failure shows only at the final flush, ProcessFileList
\* returns a wrapped non-nil error; it never returns nil with a row missing
\* from the destination.
C7_WriteFailureReturned ==
    pc = "done" =>
        /\ writeFailed => retErr.wrap = "write output failed"
        /\ (~listFailed /\ Flatten(out) # Document(allErrors)) => retErr # NoErr

\* C8: when the list file cannot be opened or read, ProcessFileList has
\* returned count 0 and a wrapped error, no listed file was stat-ed, read or
\* searched, and the output file was neither created nor truncated.
C8_ListFailureAborts ==
    listFailed =>
        /\ pc = "done"
        /\ retCount = 0
        /\ retErr.wrap = "read list failed"
        /\ log = <<>>
        /\ out = OldOut
        /\ ~fileOpen
        /\ allErrors = <<>>

C8_Witness == listFailed /\ Len(listFile) = MaxFiles /\ pc = "done"

\* C9, the state part: no record comes from a file that could not be read,
\* once the loop is left every listed path has been visited, and a non-nil
\* error is returned only when reading the list or writing the output failed.
C9_Contained ==
    /\ \A k \in 1..Len(allErrors) :
          KindOf(Resolve(allErrors[k].FilePath)) = "ok"
    /\ (pc \in {"create", "header", "row", "flush", "close", "return"}
          \/ (pc = "done" /\ ~listFailed)) =>
          /\ i = Len(filePaths) + 1
          /\ Cardinality({k \in 1..Len(log) : log[k].op = "stat"})
                = Len(filePaths)
    /\ (pc = "done" /\ retErr # NoErr) =>
          (listFailed \/ wErr # "nil")

\* C9, the step part: the step taken on a .go file that exists and cannot
\* be read leaves the records and the index counter alone and moves on to
\* the next listed path.
C9_ReadFailureStep ==
    (pc = "read" /\ KindOf(fullFilePath) # "ok") =>
        /\ errorCount' = errorCount
        /\ allErrors' = allErrors
        /\ i' = i + 1
        /\ pc' = "loop"
        /\ retErr' = retErr

\* C9: per-file failures never propagate: an unreadable .go file contributes
\* no record, does not advance the index counter, does not stop the later
\* files from being processed, and the error returned is non-nil only when
\* reading the list or writing the output failed.
C9_PerFileFailuresContained ==
    []C9_Contained /\ [][C9_ReadFailureStep]_vars

\* a finished run in which a file was searched after another could not be
\* read
C9_Witness ==
    /\ pc = "done"
    /\ retErr = NoErr
    /\ \E k \in 1..Len(log) : \E m \in 1..Len(log) :
          k < m /\ log[k].op = "print read error" /\ log[m].op = "search"

\* C10: the row written for a record is "| m' | path | line |" where m' is
\* the message with every pipe replaced by backslash-pipe and nothing else
\* changed, and the row has exactly 4 delimiting pipes (3 columns), for
\* every message over {a, pipe, backslash}.
C10_RowHasThreeColumns ==
    (pc = "row" /\ j > 1) =>
        LET e == allErrors[j - 1]
            row == (out \o buf)[j]
            m == SubSeq(row, 3,
                        Len(row) - Len(e.FilePath) - Len(Itoa(e.LineNum)) - 9)
        IN /\ row = <<"|", " ">> \o m \o <<" ", "|", " ">> \o e.FilePath
                    \o <<" ", "|", " ">> \o Itoa(e.LineNum)
                    \o <<" ", "|", "\n">>
           /\ DropPipeEscapes(m) = e.ErrorMessage
           /\ Len(m) = Len(e.ErrorMessage)
                + Cardinality({k \in 1..Len(e.ErrorMessage) :
                                  e.ErrorMessage[k] = Pipe})
           /\ DelimiterCount(row) = 4

====
